---- MODULE Spec2Model ----
(***************************************************************************)
(* A model of read-pdf's text tools:                                       *)
(*   scripts/truncate_text_output.py  the token-budget truncator           *)
(*   scripts/read_pdf_text.py         the TOC-like page heuristic, main    *)
(*   scripts/read_pdf_search.py       main                                 *)
(*   scripts/read_pdf_page_candidates.py  main                             *)
(* Texts are sequences of one-character strings.  A character TLA+ cannot  *)
(* write inside a string is written by name between angle brackets.        *)
(***************************************************************************)
EXTENDS Integers, Sequences, FiniteSets, TLC

VARIABLES
    pc,                      \* "start" before the call, "done" after it
    text,                    \* truncator: the decoded input file
    max_tokens,              \* truncator: --max-tokens
    counter,                 \* truncator: what _load_counter returned
    estimated_total_tokens,  \* truncator: token_count(text), -1 before
    stdout,                  \* what the script printed
    stderr,                  \* what the script wrote to the error channel
    exit_status,             \* -1 while running, then the exit status
    limit,                   \* _truncate_to_token_limit: its limit argument
    result,                  \* _truncate_to_token_limit: its return value
    page_text,               \* _is_toc_like_page: the page, as its lines
    prev_selected,           \* _is_toc_like_page: its prev_selected argument
    max_page,                \* _is_toc_like_page: its max_page argument
    page_locals,             \* _is_toc_like_page: its locals at the return
    page_text_by_number,     \* _select_toc_pages: page number -> page text
    toc_max_pages,           \* _select_toc_pages: its toc_max_pages argument
    selected,                \* _select_toc_pages: its return value
    lo,                      \* _truncate_to_token_limit: loop local
    hi,                      \* _truncate_to_token_limit: loop local
    best,                    \* _truncate_to_token_limit: loop local
    pending,                 \* _select_toc_pages: the page numbers yet to visit
    classified,              \* _select_toc_pages: its calls of _is_toc_like_page
    script,                  \* which script's main runs
    pdf_is_file,             \* whether the pdf argument names a file
    regex_compiles,          \* read_pdf_search: whether --regex compiles
    filter_mode,             \* read_pdf_text: --filter
    kind,                    \* read_pdf_page_candidates: --kind
    expected_pages,          \* read_pdf_text: --expected-pages
    backend_pages            \* what the extraction engine returned

truncVars == <<text, max_tokens, counter, estimated_total_tokens, stdout,
               stderr, exit_status, limit, result>>

pageVars == <<page_text, prev_selected, max_page, page_locals>>

selectVars == <<page_text_by_number, toc_max_pages, selected>>

loopVars == <<lo, hi, best>>

scanVars == <<pending, classified>>

scriptVars == <<script, pdf_is_file, regex_compiles, filter_mode, kind, expected_pages,
                backend_pages>>

restVars == <<loopVars, scanVars, scriptVars>>

vars == <<pc, truncVars, pageVars, selectVars, restVars>>

(***************************************************************************)
(* Bounds of the model.                                                    *)
(***************************************************************************)
MaxReps == 10
MaxTokens == 52
MaxCharsPerToken == 4
MaxLen == 4
MaxCount == 3
MaxNav == 12
MaxTerms == 6
MaxDots == 2
MaxProseBlocks == 5
ProseBlock == 6
MaxLines == 42
MaxPageNo == 3
MaxTocPages == 3

(***************************************************************************)
(* Generic helpers.                                                        *)
(***************************************************************************)
Max(a, b) == IF a >= b THEN a ELSE b

Prefix(s, n) == SubSeq(s, 1, n)

IsPrefix(p, s) == Len(p) <= Len(s) /\ Prefix(s, Len(p)) = p

Contains(s, t) ==
    \E i \in 0..(Len(s) - Len(t)) : SubSeq(s, i + 1, i + Len(t)) = t

Repeat(w, n) == [i \in 1..(n * Len(w)) |-> w[((i - 1) % Len(w)) + 1]]

(***************************************************************************)
(* truncate_text_output.py                                                 *)
(***************************************************************************)
\* math.ceil(n / d) for n >= 0, d > 0
Ceil(n, d) == (n + d - 1) \div d

\* mutant: without the floor of 1
_fallback_token_count_no_floor(t) == Ceil(Len(t), 4)

_fallback_token_count(t) == Max(1, Ceil(Len(t), 4))
ApproxMethod ==
    <<"a", "p", "p", "r", "o", "x", "_", "c", "h", "a", "r", "s", "_", "d", "i", "v", "4">>
TiktokenMethod ==
    <<"t", "i", "k", "t", "o", "k", "e", "n", ":", "o", "2", "0", "0", "k", "_", "b", "a", "s", "e">>

\* The two counters _load_counter can return.  The tiktoken encoder is an
\* external library: it is represented by the counters "one token per g
\* characters", g in 2..MaxCharsPerToken, which count the empty text as 0.
\* A "table" counter (used for _truncate_to_token_limit alone) gives the
\* count of each prefix of the text by its length.
FallbackCounter == [method |-> ApproxMethod, chars_per_token |-> 4, table |-> <<>>]

TiktokenCounter(g) == [method |-> TiktokenMethod, chars_per_token |-> g, table |-> <<>>]

TableCounter(f) == [method |-> <<"t", "a", "b", "l", "e">>, chars_per_token |-> 0, table |-> f]

_load_counter == {FallbackCounter} \cup {TiktokenCounter(g) : g \in 2..MaxCharsPerToken}

token_count(c, t) ==
    IF c.method = ApproxMethod THEN _fallback_token_count(t)
    ELSE IF c.method = TiktokenMethod THEN Ceil(Len(t), c.chars_per_token)
    ELSE c.table[Len(t)]

\* mutant: the loop stops one probe early (while lo < hi)
RECURSIVE BinarySearchShort(_, _, _, _, _, _)
BinarySearchShort(t, lim, c, lo0, hi0, best0) ==
    IF lo0 < hi0
    THEN LET mid == (lo0 + hi0) \div 2
             candidate == Prefix(t, mid)
         IN  IF token_count(c, candidate) <= lim
             THEN BinarySearchShort(t, lim, c, mid + 1, hi0, candidate)
             ELSE BinarySearchShort(t, lim, c, lo0, mid - 1, best0)
    ELSE best0

RECURSIVE BinarySearch(_, _, _, _, _, _)
BinarySearch(t, lim, c, lo0, hi0, best0) ==
    IF lo0 <= hi0
    THEN LET mid == (lo0 + hi0) \div 2
             candidate == Prefix(t, mid)
         IN  IF token_count(c, candidate) <= lim
             THEN BinarySearch(t, lim, c, mid + 1, hi0, candidate)
             ELSE BinarySearch(t, lim, c, lo0, mid - 1, best0)
    ELSE best0

_truncate_to_token_limit(t, lim, c) ==
    IF token_count(c, t) <= lim THEN t
    ELSE BinarySearch(t, lim, c, 0, Len(t), <<>>)

\* str.rstrip(): drop the trailing whitespace
IsSpace(ch) == ch \in {" ", "\t", "\n", "\r", "\f"}

RECURSIVE rstrip(_)
rstrip(t) ==
    IF t # <<>> /\ IsSpace(t[Len(t)]) THEN rstrip(Prefix(t, Len(t) - 1)) ELSE t

\* str(n) of an integer
Digit(d) == <<"0", "1", "2", "3", "4", "5", "6", "7", "8", "9">>[d + 1]

RECURSIVE StrNat(_)
StrNat(n) == IF n < 10 THEN <<Digit(n)>> ELSE Append(StrNat(n \div 10), Digit(n % 10))

Str(n) == IF n < 0 THEN <<"-">> \o StrNat(-n) ELSE StrNat(n)
NoticeMarker ==
    <<"\n", "\n", "[", "r", "e", "a", "d", "-", "p", "d", "f", " ", "o", "u", "t", "p", "u", "t", " ", "t", "r", "u", "n", "c", "a", "t", "e", "d", "]", "\n">>

NoticeEstimated ==
    <<"E", "s", "t", "i", "m", "a", "t", "e", "d", " ", "t", "o", "t", "a", "l", " ", "t", "o", "k", "e", "n", "s", " ", "f", "o", "r", " ", "t", "h", "i", "s", " ", "r", "e", "s", "p", "o", "n", "s", "e", ":", " ">>

NoticeConfigured ==
    <<"C", "o", "n", "f", "i", "g", "u", "r", "e", "d", " ", "m", "a", "x", " ", "o", "u", "t", "p", "u", "t", " ", "t", "o", "k", "e", "n", "s", ":", " ">>

NoticeOverride ==
    <<".", " ", "O", "v", "e", "r", "r", "i", "d", "e", " ", "w", "i", "t", "h", " ", "-", "-", "m", "a", "x", "-", "o", "u", "t", "p", "u", "t", "-", "t", "o", "k", "e", "n", "s", " ", "<", "N", ">", " ", "(", "0", " ", "d", "i", "s", "a", "b", "l", "e", "s", " ", "t", "r", "u", "n", "c", "a", "t", "i", "o", "n", ")", ".", "\n">>

NegativeBudgetMessage ==
    <<"-", "-", "m", "a", "x", "-", "t", "o", "k", "e", "n", "s", " ", "m", "u", "s", "t", " ", "b", "e", " ", ">", "=", " ", "0">>

Notice(est, method, budget) ==
    NoticeMarker
    \o NoticeEstimated \o Str(est) \o <<" ", "(">> \o method \o <<")", ".", "\n">>
    \o NoticeConfigured \o Str(budget) \o NoticeOverride

available_for_body(budget, notice_tokens) == Max(1, budget - notice_tokens)

\* mutant: a budget of 0 is not special
PassThroughNoZero(budget, est) == est <= budget

\* mutant: a text that fills the budget exactly is truncated
PassThroughStrict(budget, est) == budget = 0 \/ est < budget

\* the branch of main that prints the text as it is
PassThrough(budget, est) == budget = 0 \/ est <= budget

\* mutant: the notice reports the estimate of the truncated body
NoticeOfBody(t, budget, c) ==
    LET est == token_count(c, t)
        notice_tokens == token_count(c, Notice(est, c.method, budget))
        truncated_body ==
            rstrip(_truncate_to_token_limit(
                t, available_for_body(budget, notice_tokens), c))
    IN  Notice(token_count(c, truncated_body), c.method, budget)

\* the notice main builds for text t
NoticeOf(t, budget, c) == Notice(token_count(c, t), c.method, budget)

\* what main prints, for a budget >= 0
FinalOutput(t, budget, c) ==
    LET est == token_count(c, t)
    IN  IF PassThrough(budget, est) THEN t
        ELSE LET notice == NoticeOf(t, budget, c)
                 notice_tokens == token_count(c, notice)
                 truncated_body ==
                     rstrip(_truncate_to_token_limit(
                         t, available_for_body(budget, notice_tokens), c))
             IN  truncated_body \o notice

(***************************************************************************)
(* read_pdf_text.py: characters and normalisation.                         *)
(* A page text is held as the list of its lines (page_text.splitlines());  *)
(* the text itself is the lines joined by newlines.                        *)
(***************************************************************************)
LowerLetters ==
    {"a", "b", "c", "d", "e", "f", "g", "h", "i", "j", "k", "l", "m",
     "n", "o", "p", "q", "r", "s", "t", "u", "v", "w", "x", "y", "z"}

UpperLetters ==
    {"A", "B", "C", "D", "E", "F", "G", "H", "I", "J", "K", "L", "M",
     "N", "O", "P", "Q", "R", "S", "T", "U", "V", "W", "X", "Y", "Z"}

DigitChars == {"0", "1", "2", "3", "4", "5", "6", "7", "8", "9"}

\* NFKD, combining marks dropped, casefold: one character of the model's
\* alphabet gives one character
NormTable ==
    [ch \in UpperLetters \cup {"<I-acute>", "<i-acute>", "<e-acute>"} |->
        CASE ch = "A" -> "a" [] ch = "B" -> "b" [] ch = "C" -> "c" [] ch = "D" -> "d"
          [] ch = "E" -> "e" [] ch = "F" -> "f" [] ch = "G" -> "g" [] ch = "H" -> "h"
          [] ch = "I" -> "i" [] ch = "J" -> "j" [] ch = "K" -> "k" [] ch = "L" -> "l"
          [] ch = "M" -> "m" [] ch = "N" -> "n" [] ch = "O" -> "o" [] ch = "P" -> "p"
          [] ch = "Q" -> "q" [] ch = "R" -> "r" [] ch = "S" -> "s" [] ch = "T" -> "t"
          [] ch = "U" -> "u" [] ch = "V" -> "v" [] ch = "W" -> "w" [] ch = "X" -> "x"
          [] ch = "Y" -> "y" [] ch = "Z" -> "z"
          [] ch = "<I-acute>" -> "i" [] ch = "<i-acute>" -> "i"
          [] ch = "<e-acute>" -> "e"]

\* str.isalpha, str.isupper, str.isdigit, and the regex classes \w and \d
IsAlpha(ch) ==
    ch \in LowerLetters \cup UpperLetters \cup {"<I-acute>", "<i-acute>", "<e-acute>"}

IsUpper(ch) == ch \in UpperLetters \cup {"<I-acute>"}

IsDigit(ch) == ch \in DigitChars

IsWordChar(ch) == IsAlpha(ch) \/ IsDigit(ch) \/ ch = "_"

_norm(t) == [i \in 1..Len(t) |-> IF t[i] \in DOMAIN NormTable THEN NormTable[t[i]] ELSE t[i]]

\* " ".join(text.split()): every run of whitespace that follows a word
\* leaves one space, and the space after the last word is dropped
_collapse_ws(t) ==
    LET marked == [i \in 1..Len(t) |->
                      IF ~IsSpace(t[i]) THEN t[i]
                      ELSE IF i > 1 /\ ~IsSpace(t[i - 1]) THEN " "
                      ELSE "<dropped>"]
        kept == SelectSeq(marked, LAMBDA ch : ch # "<dropped>")
    IN  IF kept # <<>> /\ kept[Len(kept)] = " "
        THEN Prefix(kept, Len(kept) - 1)
        ELSE kept

\* str.strip(chars) and str.strip()
RECURSIVE lstrip_chars(_, _)
lstrip_chars(t, chars) ==
    IF t # <<>> /\ t[1] \in chars THEN lstrip_chars(Tail(t), chars) ELSE t

RECURSIVE rstrip_chars(_, _)
rstrip_chars(t, chars) ==
    IF t # <<>> /\ t[Len(t)] \in chars
    THEN rstrip_chars(Prefix(t, Len(t) - 1), chars)
    ELSE t

strip_chars(t, chars) == lstrip_chars(rstrip_chars(t, chars), chars)

SpaceChars == {" ", "\t", "\n", "\r", "\f"}

strip(t) == strip_chars(t, SpaceChars)

\* len(text.split())
WordCount(t) ==
    Cardinality({i \in 1..Len(t) : ~IsSpace(t[i]) /\ (i = 1 \/ IsSpace(t[i - 1]))})

\* the page text of the lines from..to of a list of lines
RECURSIVE JoinRange(_, _, _)
JoinRange(lines, from, to) ==
    IF from > to THEN <<>>
    ELSE IF from = to THEN lines[from]
    ELSE LET mid == (from + to) \div 2
         IN  JoinRange(lines, from, mid) \o <<"\n">> \o JoinRange(lines, mid + 1, to)

JoinLines(lines) == JoinRange(lines, 1, Len(lines))

StartsWith(t, p) == Len(p) <= Len(t) /\ Prefix(t, Len(p)) = p

Count(t, chars) == Cardinality({i \in 1..Len(t) : t[i] \in chars})

(***************************************************************************)
(* read_pdf_text.py: heading hints.                                        *)
(***************************************************************************)
_HEADING_HINTS ==
    <<<<"t", "a", "b", "l", "e", " ", "o", "f", " ", "c", "o", "n", "t", "e", "n", "t", "s">>,
      <<"t", "a", "b", "l", "e", " ", "o", "f", " ", "c", "o", "n", "t", "e", "n", "t">>,
      <<"c", "o", "n", "t", "e", "n", "t", "s">>,
      <<"t", "o", "c">>,
      <<"i", "n", "d", "e", "x">>,
      <<"i", "n", "d", "i", "c", "e", "s">>,
      <<"i", "n", "d", "i", "c", "e">>,
      <<"i", "n", "d", "i", "c", "e", " ", "g", "e", "n", "e", "r", "a", "l">>,
      <<"i", "n", "d", "i", "c", "e", " ", "d", "e", " ", "c", "o", "n", "t", "e", "n", "i", "d", "o", "s">>,
      <<"t", "a", "b", "l", "a", " ", "d", "e", " ", "c", "o", "n", "t", "e", "n", "i", "d", "o", "s">>,
      <<"t", "a", "b", "l", "a", " ", "d", "e", " ", "c", "o", "n", "t", "e", "n", "i", "d", "o">>,
      <<"c", "o", "n", "t", "e", "n", "i", "d", "o">>,
      <<"c", "o", "n", "t", "e", "n", "i", "d", "o", "s">>,
      <<"s", "u", "m", "a", "r", "i", "o">>,
      <<"l", "i", "s", "t", " ", "o", "f", " ", "f", "i", "g", "u", "r", "e", "s">>,
      <<"l", "i", "s", "t", " ", "o", "f", " ", "t", "a", "b", "l", "e", "s">>,
      <<"l", "i", "s", "t", " ", "o", "f", " ", "i", "l", "l", "u", "s", "t", "r", "a", "t", "i", "o", "n", "s">>,
      <<"l", "i", "s", "t", "a", " ", "d", "e", " ", "f", "i", "g", "u", "r", "a", "s">>,
      <<"l", "i", "s", "t", "a", " ", "d", "e", " ", "t", "a", "b", "l", "a", "s">>,
      <<"l", "i", "s", "t", "a", " ", "d", "e", " ", "i", "l", "u", "s", "t", "r", "a", "c", "i", "o", "n", "e", "s">>,
      <<"i", "n", "d", "i", "c", "e", " ", "d", "e", " ", "f", "i", "g", "u", "r", "a", "s">>,
      <<"i", "n", "d", "i", "c", "e", " ", "d", "e", " ", "t", "a", "b", "l", "a", "s">>,
      <<"i", "n", "d", "i", "c", "e", " ", "d", "e", " ", "i", "l", "u", "s", "t", "r", "a", "c", "i", "o", "n", "e", "s">>,
      <<"g", "l", "o", "s", "s", "a", "r", "y">>,
      <<"g", "l", "o", "s", "a", "r", "i", "o">>,
      <<"a", "b", "b", "r", "e", "v", "i", "a", "t", "i", "o", "n", "s">>,
      <<"a", "b", "r", "e", "v", "i", "a", "t", "u", "r", "a", "s">>,
      <<"a", "c", "r", "o", "n", "y", "m", "s">>,
      <<"s", "i", "g", "l", "a", "s">>,
      <<"a", "p", "p", "e", "n", "d", "i", "x">>,
      <<"a", "p", "p", "e", "n", "d", "i", "c", "e", "s">>,
      <<"a", "p", "e", "n", "d", "i", "c", "e">>,
      <<"a", "p", "e", "n", "d", "i", "c", "e", "s">>,
      <<"a", "n", "e", "x", "o">>,
      <<"a", "n", "e", "x", "o", "s">>>>

_STRONG_HEADING_HINTS ==
    <<<<"t", "a", "b", "l", "e", " ", "o", "f", " ", "c", "o", "n", "t", "e", "n", "t", "s">>,
      <<"c", "o", "n", "t", "e", "n", "t", "s">>,
      <<"t", "a", "b", "l", "a", " ", "d", "e", " ", "c", "o", "n", "t", "e", "n", "i", "d", "o", "s">>,
      <<"t", "a", "b", "l", "a", " ", "d", "e", " ", "c", "o", "n", "t", "e", "n", "i", "d", "o">>,
      <<"c", "o", "n", "t", "e", "n", "i", "d", "o">>,
      <<"c", "o", "n", "t", "e", "n", "i", "d", "o", "s">>,
      <<"s", "u", "m", "a", "r", "i", "o">>,
      <<"i", "n", "d", "e", "x">>,
      <<"i", "n", "d", "i", "c", "e">>,
      <<"l", "i", "s", "t", " ", "o", "f", " ", "f", "i", "g", "u", "r", "e", "s">>,
      <<"l", "i", "s", "t", " ", "o", "f", " ", "t", "a", "b", "l", "e", "s">>,
      <<"l", "i", "s", "t", "a", " ", "d", "e", " ", "f", "i", "g", "u", "r", "a", "s">>,
      <<"l", "i", "s", "t", "a", " ", "d", "e", " ", "t", "a", "b", "l", "a", "s">>,
      <<"g", "l", "o", "s", "s", "a", "r", "y">>,
      <<"g", "l", "o", "s", "a", "r", "i", "o">>,
      <<"a", "b", "b", "r", "e", "v", "i", "a", "t", "i", "o", "n", "s">>,
      <<"a", "b", "r", "e", "v", "i", "a", "t", "u", "r", "a", "s">>>>

Range(f) == {f[i] : i \in DOMAIN f}

_looks_like_heading_line(line) ==
    LET stripped == strip(line)
        letters == Cardinality({i \in 1..Len(stripped) : IsAlpha(stripped[i])})
        upper == Cardinality({i \in 1..Len(stripped) : IsUpper(stripped[i])})
    IN  IF stripped = <<>> THEN FALSE
        ELSE IF stripped[1] = "#" THEN TRUE
        ELSE letters >= 6 /\ 100 * upper >= 85 * letters

\* the positions of t where a word starts: the places \b can match before
\* a hint, which starts with a letter
WordStarts(t) ==
    {i \in 1..Len(t) : IsWordChar(t[i]) /\ (i = 1 \/ ~IsWordChar(t[i - 1]))}

\* hint matches at position i of t and a word ends with it
HintAt(hint, t, i) ==
    /\ i + Len(hint) - 1 <= Len(t)
    /\ t[i] = hint[1]
    /\ SubSeq(t, i, i + Len(hint) - 1) = hint
    /\ i + Len(hint) - 1 = Len(t) \/ ~IsWordChar(t[i + Len(hint)])

DecorationChars ==
    {":", "-", "<en-dash>", "<em-dash>", "<bullet>", "<middle-dot>", "*", "#", " ", "\t"}

\* mutant: one line fewer is scanned
ScannedLinesShort(lines) == Prefix(lines, IF Len(lines) < 39 THEN Len(lines) ELSE 39)

\* lines[:40]
ScannedLines(lines) == Prefix(lines, IF Len(lines) < 40 THEN Len(lines) ELSE 40)

\* the strong hints one scanned line gives
StrongHitsOfLine(line) ==
    IF strip(line) = <<>> THEN {}
    ELSE LET normalized_line == strip_chars(_collapse_ws(_norm(line)), DecorationChars)
         IN  IF normalized_line = <<>> THEN {}
             ELSE {hint \in Range(_STRONG_HEADING_HINTS) :
                     /\ normalized_line = hint \/ StartsWith(normalized_line, Append(hint, " "))
                     /\ _looks_like_heading_line(line) \/ WordCount(normalized_line) <= 6}

\* the hints found in the normalized text nf, whose words start at starts
HitsIn(nf, starts) ==
    {hint \in Range(_HEADING_HINTS) : \E i \in starts : HintAt(hint, nf, i)}

any_hits_of(lines) ==
    UNION {UNION {HitsIn(nf, starts) : starts \in {WordStarts(nf)}} :
             nf \in {_collapse_ws(_norm(JoinLines(lines)))}}

strong_heading_hits_of(lines) ==
    UNION {StrongHitsOfLine(line) : line \in Range(ScannedLines(lines))}

_heading_hint_hits(lines) == <<any_hits_of(lines), strong_heading_hits_of(lines)>>

(***************************************************************************)
(* read_pdf_text.py: the line classifiers.                                 *)
(***************************************************************************)
\* [ivxlcdm] under re.IGNORECASE
IsRoman(ch) == ch \in {"i", "v", "x", "l", "c", "d", "m", "I", "V", "X", "L", "C", "D", "M"}

IsPageSep(ch) == ch \in {",", ";", "-", "<en-dash>", "<em-dash>"}

\* the first position >= i of t whose character is not in chars
\* (Len(t) + 1 if there is none)
FirstNotIn(t, i, chars) ==
    IF \A p \in i..Len(t) : t[p] \in chars THEN Len(t) + 1
    ELSE CHOOSE p \in i..Len(t) : t[p] \notin chars /\ \A q \in i..(p - 1) : t[q] \in chars

SkipSpace(t, i) == FirstNotIn(t, i, SpaceChars)

RunEnd(t, i, ch) == FirstNotIn(t, i, {ch})

DigitRunEnd(t, i) == FirstNotIn(t, i, DigitChars)

RomanChars == {"i", "v", "x", "l", "c", "d", "m", "I", "V", "X", "L", "C", "D", "M"}

RomanRunEnd(t, i) == FirstNotIn(t, i, RomanChars)

\* _PAGE_LIST_RE matches t[i..e] entirely: tokens of 1-4 digits or 1-8 roman
\* letters, joined by one separator with optional whitespace around it
RECURSIVE PageListMatches(_, _, _)
PageListMatches(t, i, e) ==
    IF i > e THEN FALSE
    ELSE LET j == IF IsDigit(t[i]) THEN DigitRunEnd(t, i)
                  ELSE IF IsRoman(t[i]) THEN RomanRunEnd(t, i)
                  ELSE i
             fits == IF IsDigit(t[i]) THEN j - i <= 4 ELSE j - i <= 8
         IN  IF j = i \/ ~fits \/ j > e + 1 THEN FALSE
             ELSE IF j = e + 1 THEN TRUE
             ELSE LET s == SkipSpace(t, j)
                  IN  /\ s <= e
                      /\ IsPageSep(t[s])
                      /\ PageListMatches(t, SkipSpace(t, s + 1), e)

\* the last position of t that holds no whitespace (0 if none)
RECURSIVE LastNonSpace(_, _)
LastNonSpace(t, i) == IF i >= 1 /\ IsSpace(t[i]) THEN LastNonSpace(t, i - 1) ELSE i

\* where the page list starts when the label is t[1..j]: after the optional
\* leader (2 or more dots, 2 or more middle dots, the text "-2,", the text
\* "_2,", whitespace) and whitespace; 0 when the rest of t does not match
NavPageListStart(t, j) ==
    LET r == j + 1
        e == LastNonSpace(t, Len(t))
        dots == RunEnd(t, r, ".")
        middots == RunEnd(t, r, "<middle-dot>")
        literal == IF r + 2 <= Len(t) THEN SubSeq(t, r, r + 2) ELSE <<>>
        q == IF dots - r >= 2 THEN SkipSpace(t, dots)
             ELSE IF middots - r >= 2 THEN SkipSpace(t, middots)
             ELSE IF literal = <<"-", "2", ",">> \/ literal = <<"_", "2", ",">>
                  THEN SkipSpace(t, r + 3)
             ELSE SkipSpace(t, r)
    IN  IF PageListMatches(t, q, e) THEN q ELSE 0

Least(S) == CHOOSE x \in S : \A y \in S : x <= y

\* the end of the lazy label: the least j with a match, 0 if none
NavLabelEnd(t) ==
    LET ends == {j \in 1..(Len(t) - 1) : NavPageListStart(t, j) # 0}
    IN  IF ends = {} THEN 0 ELSE Least(ends)

\* _NAV_ENTRY_RE.match(t) for a text without leading whitespace
NavEntryMatch(t) ==
    LET j == NavLabelEnd(t)
    IN  IF j = 0 THEN [matched |-> FALSE, label |-> <<>>, pagelist |-> <<>>]
        ELSE [matched |-> TRUE,
              label |-> Prefix(t, j),
              pagelist |-> SubSeq(t, NavPageListStart(t, j), LastNonSpace(t, Len(t)))]

\* re.split(r"[...]", t): the pieces of t between the characters of seps
RECURSIVE SplitFrom(_, _, _, _, _)
SplitFrom(t, seps, i, piece, acc) ==
    IF i > Len(t) THEN Append(acc, piece)
    ELSE IF t[i] \in seps THEN SplitFrom(t, seps, i + 1, <<>>, Append(acc, piece))
    ELSE SplitFrom(t, seps, i + 1, Append(piece, t[i]), acc)

Split(t, seps) == SplitFrom(t, seps, 1, <<>>, <<>>)

AllDigits(t) == \A i \in 1..Len(t) : IsDigit(t[i])

DigitValue(ch) == CHOOSE d \in 0..9 : Digit(d) = ch

RECURSIVE ToInt(_)
ToInt(t) == IF t = <<>> THEN 0 ELSE 10 * ToInt(Prefix(t, Len(t) - 1)) + DigitValue(t[Len(t)])

\* the single-token year test on the page list
LooksLikeYear(pagelist) ==
    LET pieces == Split(pagelist, {",", ";"})
        tokens == SelectSeq([i \in 1..Len(pieces) |-> strip(pieces[i])], LAMBDA p : p # <<>>)
    IN  /\ Len(tokens) = 1
        /\ Len(tokens[1]) = 4
        /\ AllDigits(tokens[1])
        /\ 1500 <= ToInt(tokens[1])
        /\ ToInt(tokens[1]) <= 2200

\* the decimal tokens of the page list, as numbers
NumericTokens(pagelist) ==
    LET pieces == Split(pagelist, {",", ";", "-", "<en-dash>", "<em-dash>"})
        kept == SelectSeq([i \in 1..Len(pieces) |-> strip(pieces[i])],
                          LAMBDA p : p # <<>> /\ Len(p) <= 4 /\ AllDigits(p))
    IN  {ToInt(kept[i]) : i \in 1..Len(kept)}

\* mutant: a reference to the last page counts as out of range
OutOfRangeInclusive(pagelist, maxp) ==
    /\ maxp > 0
    /\ \E n \in NumericTokens(pagelist) : n < 1 \/ n >= maxp

\* the plausibility test against the document's size
OutOfRange(pagelist, maxp) ==
    /\ maxp > 0
    /\ \E n \in NumericTokens(pagelist) : n < 1 \/ n > maxp

\* re.sub(r"^\s*[-*<bullet>]\s+", "", line)
StripBullet(line) ==
    LET b == SkipSpace(line, 1)
    IN  IF /\ b + 1 <= Len(line)
           /\ line[b] \in {"-", "*", "<bullet>"}
           /\ IsSpace(line[b + 1])
        THEN SubSeq(line, SkipSpace(line, b + 1), Len(line))
        ELSE line

\* re.fullmatch(r"(?:page|pagina|p)\s+\d{1,4}", t)
IsPageFooter(t) ==
    \E w \in {<<"p", "a", "g", "e">>, <<"p", "a", "g", "i", "n", "a">>, <<"p">>} :
        /\ StartsWith(t, w)
        /\ Len(t) > Len(w)
        /\ IsSpace(t[Len(w) + 1])
        /\ LET d == SkipSpace(t, Len(w) + 1)
           IN  /\ d <= Len(t)
               /\ Len(t) - d + 1 <= 4
               /\ AllDigits(SubSeq(t, d, Len(t)))

LabelTrimChars ==
    {" ", ".", "\t", "-", "<em-dash>", "<en-dash>", "<middle-dot>", "<bullet>", "_"}

\* maxp is max_page; maxp = 0 stands for "no max_page given" (None), which the code treats
\* as it treats every max_page <= 0
_looks_like_nav_entry_line(original, maxp) ==
    LET line == StripBullet(strip(original))
        normalized == _norm(line)
        m == NavEntryMatch(normalized)
        label == strip_chars(m.label, LabelTrimChars)
    IN  IF strip(original) = <<>> THEN FALSE
        ELSE IF Len(line) < 6 \/ Len(line) > 160 THEN FALSE
        ELSE IF ~m.matched THEN FALSE
        ELSE IF Count(label, LowerLetters) < 3 THEN FALSE
        ELSE IF LooksLikeYear(m.pagelist) THEN FALSE
        ELSE IF OutOfRange(m.pagelist, maxp) THEN FALSE
        ELSE IF IsPageFooter(strip(_norm(original))) THEN FALSE
        ELSE TRUE

\* str.find, counted from 1: the first occurrence of sep in t, 0 if none
Find(t, sep) ==
    LET at == {i \in 1..(Len(t) - Len(sep) + 1) : SubSeq(t, i, i + Len(sep) - 1) = sep}
    IN  IF at = {} THEN 0 ELSE Least(at)

\* the separator the term/definition split uses: the first of these that
\* occurs in the line, in this order
TermSeparators == <<<<"<em-dash>">>, <<"<en-dash>">>, <<" ", "-", " ">>, <<":">>>>

_looks_like_term_definition_line(line) ==
    LET stripped == strip(line)
        found == {k \in 1..Len(TermSeparators) : Find(stripped, TermSeparators[k]) # 0}
        sep == TermSeparators[CHOOSE k \in found : \A k2 \in found : k <= k2]
        at == Find(stripped, sep)
        left == strip(Prefix(stripped, at - 1))
        right == strip(SubSeq(stripped, at + Len(sep), Len(stripped)))
    IN  IF stripped = <<>> THEN FALSE
        ELSE IF Len(stripped) < 8 \/ Len(stripped) > 220 THEN FALSE
        ELSE IF _looks_like_heading_line(stripped) THEN FALSE
        ELSE IF found = {} THEN FALSE
        ELSE IF Len(left) < 2 \/ Len(right) < 3 THEN FALSE
        ELSE IF Count(left, LowerLetters \cup UpperLetters) < 2 THEN FALSE
        ELSE IF Count(right, LowerLetters \cup UpperLetters) < 3 THEN FALSE
        ELSE TRUE

(***************************************************************************)
(* read_pdf_text.py: the page classifier and the page selector.            *)
(***************************************************************************)
\* the locals of _is_toc_like_page when it returns before counting
NoLocals ==
    [is_candidate |-> FALSE, any_hits |-> {}, strong_heading_hits |-> {},
     nav_entry_lines |-> 0, dot_leader_lines |-> 0, term_def_lines |-> 0,
     considered |-> 0]

HasDotLeader(t) == Find(t, <<".", ".", ".">>) # 0 \/ Find(t, <<"<middle-dot>", "<middle-dot>">>) # 0

\* the seven rules, on the page's counts; a ratio n / considered >= p / 100
\* is compared as 100 * n >= p * considered
RuleA(strong, nav, dots, considered) ==
    strong /\ (nav >= 2 \/ 100 * nav >= 12 * considered \/ dots >= 1)

\* mutant: rule (b) asks for more than 6 nav-entry lines
RuleBStrict(hint, nav, considered) == hint /\ nav > 6 /\ 100 * nav >= 20 * considered

RuleB(hint, nav, considered) == hint /\ nav >= 6 /\ 100 * nav >= 20 * considered

\* mutant: rule (c) does not ask for a selected page before this one
RuleCNoPrev(prev, nav, considered) == nav >= 4 /\ 100 * nav >= 15 * considered

RuleC(prev, nav, considered) == prev /\ nav >= 4 /\ 100 * nav >= 15 * considered

\* mutant: rule (d) asks for more than 6 term/definition lines
RuleDStrict(prev, terms, considered) == prev /\ terms > 6 /\ 100 * terms >= 20 * considered

RuleD(prev, terms, considered) == prev /\ terms >= 6 /\ 100 * terms >= 20 * considered

RuleE(hint, nav, considered) == hint /\ nav >= 10 /\ 100 * nav >= 25 * considered

RuleF(strong, terms, considered) == strong /\ terms >= 6 /\ 100 * terms >= 20 * considered

RuleG(nav, dots, considered) == nav >= 12 /\ 100 * nav >= 35 * considered /\ dots >= 2

\* the one element of a singleton set; a value bound this way is computed once,
\* as a local the code assigns once is
Only(S) == CHOOSE x \in S : TRUE

\* the number of entries of short that the table marks
Tally(short, marks) == Cardinality({i \in 1..Len(short) : marks[short[i]]})

\* the rules in the order the code tries them, and the locals at the return
Decide(prev, hits, nav, dots, terms, considered) ==
    [is_candidate |->
        IF considered = 0 THEN FALSE
        ELSE IF RuleA(hits[2] # {}, nav, dots, considered) THEN TRUE
        ELSE IF RuleB(hits[1] # {}, nav, considered) THEN TRUE
        ELSE IF RuleC(prev, nav, considered) THEN TRUE
        ELSE IF RuleD(prev, terms, considered) THEN TRUE
        ELSE IF RuleE(hits[1] # {}, nav, considered) THEN TRUE
        ELSE IF RuleF(hits[2] # {}, terms, considered) THEN TRUE
        ELSE IF RuleG(nav, dots, considered) THEN TRUE
        ELSE FALSE,
     any_hits |-> hits[1],
     strong_heading_hits |-> hits[2],
     nav_entry_lines |-> nav,
     dot_leader_lines |-> dots,
     term_def_lines |-> terms,
     considered |-> considered]

\* the counting loop over the lines of at most 260 characters
CountLines(short, prev, hits, maxp) ==
    Only({Decide(prev, hits, Tally(short, is_nav), Tally(short, has_dots),
                 Tally(short, is_term), Len(short)) :
            is_nav \in {[ln \in Range(short) |-> _looks_like_nav_entry_line(ln, maxp)]},
            has_dots \in {[ln \in Range(short) |-> HasDotLeader(ln)]},
            is_term \in {[ln \in Range(short) |-> _looks_like_term_definition_line(ln)]}})

\* the locals of _is_toc_like_page when it returns
PageLocals(ptext, prev, maxp) ==
    Only({IF lines = <<>> THEN NoLocals
          ELSE Only({CountLines(short, prev, hits, maxp) :
                       short \in {SelectSeq(lines, LAMBDA ln : Len(ln) <= 260)},
                       hits \in {_heading_hint_hits(ptext)}}) :
            lines \in {SelectSeq([i \in 1..Len(ptext) |-> strip(ptext[i])],
                                 LAMBDA ln : ln # <<>>)}})

_is_toc_like_page(ptext, prev, maxp) ==
    PageLocals(ptext, prev, maxp).is_candidate

\* sorted(page_text_by_number.keys()): the keys in S, ascending
RECURSIVE sorted(_)
sorted(S) ==
    IF S = {} THEN <<>>
    ELSE LET least == CHOOSE x \in S : \A y \in S : x <= y
         IN  <<least>> \o sorted(S \ {least})

\* max(page_text_by_number.keys(), default=0)
MaxKey(S) == IF S = {} THEN 0 ELSE CHOOSE x \in S : \A y \in S : y <= x

\* mutant: the scan stops one page late
StopScanLate(sel, maxPages) == Len(sel) > maxPages

\* the test that ends the scan
StopScan(sel, maxPages) == Len(sel) >= maxPages

\* the loop of _select_toc_pages from the k-th key on, with the locals
\* selected (sel) and prev_selected (prev)
RECURSIVE SelectFrom(_, _, _, _, _, _, _)
SelectFrom(pages, keys, k, sel, prev, maxPages, maxp) ==
    IF k > Len(keys) THEN sel
    ELSE IF StopScan(sel, maxPages) THEN sel
    ELSE IF _is_toc_like_page(pages[keys[k]], prev, maxp)
         THEN SelectFrom(pages, keys, k + 1, Append(sel, keys[k]), TRUE, maxPages, maxp)
         ELSE SelectFrom(pages, keys, k + 1, sel, FALSE, maxPages, maxp)

\* mutant: every page is scanned and the last maxPages selected ones are kept
_select_toc_pages_last(pages, maxPages) ==
    LET all == SelectFrom(pages, sorted(DOMAIN pages), 1, <<>>, FALSE,
                          Cardinality(DOMAIN pages) + 1, MaxKey(DOMAIN pages))
    IN  IF maxPages <= 0 THEN <<>>
        ELSE SubSeq(all, Max(1, Len(all) - maxPages + 1), Len(all))

_select_toc_pages(pages, maxPages) ==
    SelectFrom(pages, sorted(DOMAIN pages), 1, <<>>, FALSE, maxPages, MaxKey(DOMAIN pages))

(***************************************************************************)
(* Inputs of the truncator: a word repeated 0..MaxReps times.              *)
(***************************************************************************)
WordAlpha ==
    <<"a", "l", "p", "h", "a", " ", "b", "e", "t", "a", " ", "g", "a", "m", "m", "a", " ", "d", "e", "l", "t", "a", " ">>

Words == {<<"x">>, <<"a", "b", " ">>, <<"a", "\n", " ", "\n">>, WordAlpha}

Texts == {Repeat(w, n) : w \in Words, n \in 0..MaxReps}

Alphabet == <<"a", "b", "c", "d", "e", "f", "g", "h">>

IdleSearch == limit = 0 /\ result = <<>>

IdlePage ==
    /\ page_text = <<>>
    /\ prev_selected = FALSE
    /\ max_page = 0
    /\ page_locals = NoLocals

IdleSelect ==
    /\ page_text_by_number = <<>>
    /\ toc_max_pages = 0
    /\ selected = <<>>

IdleLoop == lo = 0 /\ hi = 0 /\ best = <<>>

IdleScan == pending = <<>> /\ classified = <<>>

\* --expected-pages when it is not given
NoExpectedPages == [given |-> FALSE, value |-> 0]

IdleScript ==
    /\ script = "none"
    /\ pdf_is_file = FALSE
    /\ regex_compiles = FALSE
    /\ filter_mode = "all"
    /\ kind = "toc"
    /\ expected_pages = NoExpectedPages
    /\ backend_pages = <<>>

IdleRest == IdleLoop /\ IdleScan /\ IdleScript

IdleTruncator ==
    /\ text = <<>>
    /\ counter = FallbackCounter

IdleMain ==
    /\ max_tokens = 0
    /\ estimated_total_tokens = -1
    /\ stdout = <<>>
    /\ stderr = <<>>
    /\ exit_status = -1

(***************************************************************************)
(* Spec: one run of truncate_text_output.py main.                          *)
(***************************************************************************)
Init ==
    /\ pc = "start"
    /\ text \in Texts
    /\ max_tokens \in -1..MaxTokens
    /\ counter \in _load_counter
    /\ estimated_total_tokens = -1
    /\ stdout = <<>>
    /\ stderr = <<>>
    /\ exit_status = -1
    /\ IdleSearch
    /\ IdlePage
    /\ IdleSelect
    /\ IdleRest

\* mutant: a negative budget is taken as 0 and the run goes on
MainCoerced ==
    /\ pc = "start"
    /\ pc' = "done"
    /\ estimated_total_tokens' = token_count(counter, text)
    /\ stdout' = FinalOutput(text, Max(0, max_tokens), counter)
    /\ exit_status' = 0
    /\ UNCHANGED stderr
    /\ UNCHANGED <<text, max_tokens, counter, limit, result, pageVars, selectVars, restVars>>

Main ==
    /\ pc = "start"
    /\ pc' = "done"
    /\ IF max_tokens < 0
       THEN /\ stderr' = NegativeBudgetMessage
            /\ exit_status' = 1
            /\ UNCHANGED <<estimated_total_tokens, stdout>>
       ELSE /\ estimated_total_tokens' = token_count(counter, text)
            /\ stdout' = FinalOutput(text, max_tokens, counter)
            /\ exit_status' = 0
            /\ UNCHANGED stderr
    /\ UNCHANGED <<text, max_tokens, counter, limit, result, pageVars, selectVars, restVars>>

Next == Main

Spec == Init /\ [][Next]_vars

(***************************************************************************)
(* SpecSearch: one call of _truncate_to_token_limit with any counter on    *)
(* the prefixes of the text, monotonic or not.                             *)
(***************************************************************************)
InitSearch ==
    /\ pc = "start"
    /\ \E n \in 0..MaxLen :
        /\ text = Prefix(Alphabet, n)
        /\ \E f \in [0..n -> 0..MaxCount] : counter = TableCounter(f)
    /\ limit \in 0..MaxCount
    /\ result = <<>>
    /\ IdleMain
    /\ IdlePage
    /\ IdleSelect
    /\ IdleRest

TruncateCall ==
    /\ pc = "start"
    /\ pc' = "done"
    /\ result' = _truncate_to_token_limit(text, limit, counter)
    /\ UNCHANGED <<text, max_tokens, counter, estimated_total_tokens, stdout,
                   stderr, exit_status, limit, pageVars, selectVars, restVars>>

NextSearch == TruncateCall

SpecSearch == InitSearch /\ [][NextSearch]_vars

(***************************************************************************)
(* Inputs of the page classifier: pages put together from a few lines.     *)
(***************************************************************************)
LineContents ==
    <<"C", "o", "n", "t", "e", "n", "t", "s">>

LineAppendix ==
    <<"s", "e", "e", " ", "a", "p", "p", "e", "n", "d", "i", "x", " ", "b">>

LineNavDots ==
    <<"I", "n", "t", "r", "o", " ", ".", ".", ".", " ", "4">>

LineNav ==
    <<"M", "e", "t", "h", "o", "d", " ", "1", "2">>

LineDots ==
    <<"s", "o", ".", ".", ".", " ", "o", "n">>

LineTerm ==
    <<"A", "P", "I", ":", " ", "i", "n", "t", "e", "r", "f", "a", "c", "e">>

LineProse ==
    <<"p", "l", "a", "i", "n", " ", "w", "o", "r", "d", "s", " ", "h", "e", "r", "e">>

LineNavFirst ==
    <<"I", "n", "t", "r", "o", " ", ".", ".", ".", " ", "1">>

LineNavSecond ==
    <<"M", "e", "t", "h", "o", "d", " ", "2">>

Copies(line, n) == [i \in 1..n |-> line]

Min(a, b) == IF a <= b THEN a ELSE b

\* heading kinds: no heading line, a line with a hint word that is no
\* heading, a strong heading
HeadingKinds == {"none", "hint", "strong"}

HeadingLines(h) ==
    IF h = "strong" THEN <<LineContents>>
    ELSE IF h = "hint" THEN <<LineAppendix>>
    ELSE <<>>

\* a page: the heading, n nav-entry lines, d lines with a dot leader (nav
\* entries first), t term/definition lines, p blocks of prose lines
PageOf(h, n, d, t, p) ==
    HeadingLines(h)
    \o Copies(LineNavDots, Min(n, d))
    \o Copies(LineNav, n - Min(n, d))
    \o Copies(LineDots, d - Min(n, d))
    \o Copies(LineTerm, t)
    \o Copies(LineProse, p * ProseBlock)

LongLine == Repeat(<<"w", "o", "r", "d", " ">>, 53)

\* pages whose lines are all, or partly, longer than 260 characters
LongLinePages ==
    {<<LongLine>>, <<LongLine, LongLine>>, <<LineContents, LongLine, LineNavDots>>,
     <<LongLine, LineProse>>, <<>>, <<<<" ">>, <<>>>>}

Pages ==
    {PageOf(h, n, d, t, p) :
        h \in HeadingKinds, n \in 0..MaxNav, d \in 0..MaxDots, t \in 0..MaxTerms,
        p \in 0..MaxProseBlocks}
    \cup LongLinePages

\* the document size the page classifier is given in SpecPage
DocumentPages == 40

(***************************************************************************)
(* SpecPage: one call of _is_toc_like_page.                                *)
(***************************************************************************)
InitPage ==
    /\ pc = "start"
    /\ page_text \in Pages
    /\ prev_selected \in BOOLEAN
    /\ max_page = DocumentPages
    /\ page_locals = NoLocals
    /\ IdleTruncator
    /\ IdleMain
    /\ IdleSearch
    /\ IdleSelect
    /\ IdleRest

ClassifyPage ==
    /\ pc = "start"
    /\ pc' = "done"
    /\ page_locals' = PageLocals(page_text, prev_selected, max_page)
    /\ UNCHANGED <<page_text, prev_selected, max_page, truncVars, selectVars, restVars>>

NextPage == ClassifyPage

SpecPage == InitPage /\ [][NextPage]_vars

(***************************************************************************)
(* SpecHints: _is_toc_like_page on pages whose heading line comes after    *)
(* blank lines and lines of prose.                                         *)
(***************************************************************************)
LineDecorated ==
    <<"#", "#", " ", "T", "a", "b", "l", "e", " ", "o", "f", " ", " ", "C", "o", "n", "t", "e", "n", "t", "s", ":">>

LineGlossary ==
    <<"\t", "-", " ", "G", "L", "O", "S", "S", "A", "R", "Y", " ", "-">>

BlankLines == {<<>>, <<" ", "\t">>}

HintLines == {LineContents, LineDecorated, LineGlossary}

\* b blank lines, f lines of prose, the heading line, one more line of prose
HintPages ==
    {Copies(blank, b) \o Copies(LineProse, f) \o <<heading, LineProse>> :
        blank \in BlankLines, heading \in HintLines,
        b \in {0, 1} \cup (MaxLines - 4)..(MaxLines - 1),
        f \in {0, 1} \cup (MaxLines - 4)..(MaxLines - 1)}

InitHints ==
    /\ pc = "start"
    /\ page_text \in {p \in HintPages : Len(p) <= MaxLines + 1}
    /\ prev_selected \in BOOLEAN
    /\ max_page = DocumentPages
    /\ page_locals = NoLocals
    /\ IdleTruncator
    /\ IdleMain
    /\ IdleSearch
    /\ IdleSelect
    /\ IdleRest

SpecHints == InitHints /\ [][NextPage]_vars

(***************************************************************************)
(* SpecSelect: one call of _select_toc_pages.                              *)
(***************************************************************************)
PageProse == Copies(LineProse, 3)

PageToc == <<LineContents, LineNavFirst, LineNavSecond>>

PageNavRun == Copies(LineNavFirst, 4)

PageGlossaryRun == Copies(LineTerm, 6)

PageKinds == {PageProse, PageToc, PageNavRun, PageGlossaryRun, <<>>}

\* the mappings from page numbers to page texts
Documents ==
    UNION {[S -> PageKinds] : S \in SUBSET (1..MaxPageNo)}

InitSelect ==
    /\ pc = "start"
    /\ page_text_by_number \in Documents
    /\ toc_max_pages \in -1..MaxTocPages
    /\ selected = <<>>
    /\ IdleTruncator
    /\ IdleMain
    /\ IdleSearch
    /\ IdlePage
    /\ IdleRest

SelectTocPages ==
    /\ pc = "start"
    /\ pc' = "done"
    /\ selected' = _select_toc_pages(page_text_by_number, toc_max_pages)
    /\ UNCHANGED <<page_text_by_number, toc_max_pages, truncVars, pageVars, restVars>>

NextSelect == SelectTocPages

SpecSelect == InitSelect /\ [][NextSelect]_vars

(***************************************************************************)
(* SpecNav: _is_toc_like_page on pages of one line, a label followed by a    *)
(* list of page numbers, for documents of several sizes.                    *)
(***************************************************************************)
NavLabels_SeePage == <<"S", "e", "e", " ", "p", "a", "g", "e">>

NavLabels ==
    {NavLabels_SeePage,
     <<"C", "h", "a", "p", "t", "e", "r">>,
     <<"-", " ", "I", "n", "t", "r", "o">>,
     <<"P", "a", "g", "e">>}

NavLeaders ==
    {<<" ">>,
     <<" ", ".", ".", ".", " ">>,
     <<" ", " ">>}

NavPageLists ==
    {<<"4", "5", "0">>,
     <<"7">>,
     <<"1", "0", "0">>,
     <<"1", "0", "1">>,
     <<"0">>,
     <<"x", "i", "i">>,
     <<"3", "-", "4", "5", "0">>,
     <<"3", ",", " ", "5", ";", " ", "9">>,
     <<"i", "v", " ", "<en-dash>", " ", "1", "2">>,
     <<"1", "9", "9", "9">>,
     <<"1", "2", "3", "4", "5">>,
     <<"x", ",", " ", "0">>}

NavLines == {label \o leader \o pagelist :
               label \in NavLabels, leader \in NavLeaders, pagelist \in NavPageLists}

\* the largest document size but two that the nav-entry test is given
MaxDocumentPages == 101

\* the document sizes: none given or not positive, small and large ones
DocumentSizes == {-1, 0} \cup {1, 7, 9, 12} \cup (MaxDocumentPages - 2)..MaxDocumentPages \cup {449, 450, 2000}

InitNav ==
    /\ pc = "start"
    /\ page_text \in {<<line>> : line \in NavLines}
    /\ prev_selected = FALSE
    /\ max_page \in DocumentSizes
    /\ page_locals = NoLocals
    /\ IdleTruncator
    /\ IdleMain
    /\ IdleSearch
    /\ IdleSelect
    /\ IdleRest

SpecNav == InitNav /\ [][NextPage]_vars

(***************************************************************************)
(* read_pdf_text.py: the pages of a document.  The extraction engines are  *)
(* libraries; what they return is any mapping from page numbers to texts.  *)
(***************************************************************************)
\* mutant: an expected count of zero is taken as a count as well
_extract_pages_zero(backend, expected) ==
    IF expected.given /\ expected.value >= 0
    THEN [i \in 1..expected.value |-> IF i \in DOMAIN backend THEN backend[i] ELSE <<>>]
    ELSE backend

\* backend is what the engine returned; a page's text is its list of lines,
\* <<>> for the empty text
_extract_pages(backend, expected) ==
    IF expected.given /\ expected.value > 0
    THEN [i \in 1..expected.value |-> IF i \in DOMAIN backend THEN backend[i] ELSE <<>>]
    ELSE backend

\* the texts an engine returns for a page
BackendTexts == {PageProse, PageToc, <<>>}

\* the mappings an engine returns: page numbers from 0 on, with gaps
BackendResults == UNION {[S -> BackendTexts] : S \in SUBSET (0..MaxPageNo)}

\* the values of --expected-pages
ExpectedPages ==
    {NoExpectedPages} \cup {[given |-> TRUE, value |-> n] : n \in -1..(MaxPageNo + 1)}

(***************************************************************************)
(* SpecExtract: one call of _extract_pages.                                *)
(***************************************************************************)
InitExtract ==
    /\ pc = "start"
    /\ backend_pages \in BackendResults
    /\ expected_pages \in ExpectedPages
    /\ script = "none"
    /\ pdf_is_file = TRUE
    /\ regex_compiles = FALSE
    /\ filter_mode = "all"
    /\ kind = "toc"
    /\ IdleTruncator
    /\ IdleMain
    /\ IdleSearch
    /\ IdlePage
    /\ IdleSelect
    /\ IdleLoop
    /\ IdleScan

ExtractPages ==
    /\ pc = "start"
    /\ pc' = "done"
    /\ page_text_by_number' = _extract_pages(backend_pages, expected_pages)
    /\ UNCHANGED <<toc_max_pages, selected, truncVars, pageVars, restVars>>

NextExtract == ExtractPages

SpecExtract == InitExtract /\ [][NextExtract]_vars

(***************************************************************************)
(* read_pdf_text.py: the markdown of a document and the script's main.     *)
(***************************************************************************)
PageMarkerOpen == <<"<", "!", "-", "-", " ", "P", "A", "G", "E", " ">>

PageMarkerClose == <<" ", "-", "-", ">", "\n">>

\* the two parts appended for one page
PageParts(page_no, lines) ==
    PageMarkerOpen \o Str(page_no) \o PageMarkerClose \o rstrip(JoinLines(lines)) \o <<"\n">>

\* the loop over the sorted page numbers, from the k-th on; chosen is the
\* set of page numbers that are not skipped
RECURSIVE MarkdownFrom(_, _, _, _)
MarkdownFrom(pages, keys, k, chosen) ==
    IF k > Len(keys) THEN <<>>
    ELSE (IF keys[k] \in chosen THEN PageParts(keys[k], pages[keys[k]]) ELSE <<>>)
         \o MarkdownFrom(pages, keys, k + 1, chosen)

\* the markdown and meta["selected_pages"] for the extracted pages; sel is
\* selected_pages, used in "toc" mode only
MarkdownAndMeta(pages, filter, sel) ==
    [markdown |->
        MarkdownFrom(pages, sorted(DOMAIN pages), 1,
                     IF filter = "toc" THEN Range(sel) ELSE DOMAIN pages),
     selected_pages |-> IF filter = "toc" THEN sel ELSE sorted(DOMAIN pages)]

build_markdown_with_page_markers(backend, filter, tocMax, expected) ==
    Only({Only({MarkdownAndMeta(pages, filter, sel) :
                  sel \in {IF filter = "toc" THEN _select_toc_pages(pages, tocMax)
                           ELSE <<>>}}) :
            pages \in {_extract_pages(backend, expected)}})

PdfPath == <<"r", "e", "p", "o", "r", "t", ".", "p", "d", "f">>

PdfNotFoundMessage ==
    <<"E", "R", "R", "O", "R", ":", " ", "P", "D", "F", " ", "n", "o", "t", " ", "f", "o", "u", "n", "d", ":", " ">> \o PdfPath

\* mutant: no page selected ends like a page selected, with status 0
TextExitQuiet(filter, meta) == 0

\* the status of read_pdf_text once the markdown is built
TextExit(filter, meta) == IF filter = "toc" /\ meta.selected_pages = <<>> THEN 4 ELSE 0

\* main of read_pdf_text.py; the meta file of --meta-json-out is not modelled
TextMain ==
    /\ pc = "start"
    /\ script = "read_pdf_text"
    /\ pc' = "done"
    /\ IF ~pdf_is_file
       THEN /\ stderr' = PdfNotFoundMessage
            /\ exit_status' = 1
            /\ UNCHANGED <<stdout, page_text_by_number, selected>>
       ELSE \E built \in {build_markdown_with_page_markers(backend_pages, filter_mode,
                                                            toc_max_pages, expected_pages)} :
            /\ page_text_by_number' = _extract_pages(backend_pages, expected_pages)
            /\ selected' = built.selected_pages
            /\ exit_status' = TextExit(filter_mode, built)
            /\ stdout' = IF TextExit(filter_mode, built) = 4 THEN stdout ELSE built.markdown
            /\ UNCHANGED stderr
    /\ UNCHANGED <<text, max_tokens, counter, estimated_total_tokens, limit, result,
                   toc_max_pages, pageVars, restVars>>

(***************************************************************************)
(* read_pdf_search.py and read_pdf_page_candidates.py: their main.  The    *)
(* pages come from PyMuPDF, numbered 1..page_count; a line the scripts     *)
(* print is a JSON object, modelled as a record of the fields that tell    *)
(* the lines apart.                                                        *)
(***************************************************************************)
InvalidRegexMessage ==
    <<"E", "R", "R", "O", "R", ":", " ", "i", "n", "v", "a", "l", "i", "d", " ", "r", "e", "g", "e", "x", ":", " ">>

PageCountWarning(expected, actual) ==
    <<"W", "A", "R", "N", "I", "N", "G", ":", " ", "p", "a", "g", "e", " ", "c", "o", "u", "n", "t", " ", "m", "i", "s", "m", "a", "t", "c", "h", ":", " ">>
    \o <<"e", "x", "p", "e", "c", "t", "e", "d", "=">> \o Str(expected)
    \o <<" ", "a", "c", "t", "u", "a", "l", "=">> \o Str(actual)

\* doc.page_count of the document whose pages are given
PageCount(pages) == Cardinality(DOMAIN pages)

\* what the scripts write to stderr once the document is open
WarningFor(pdfPages, pages) ==
    IF pdfPages.given /\ pdfPages.value > 0 /\ PageCount(pages) # pdfPages.value
    THEN PageCountWarning(pdfPages.value, PageCount(pages))
    ELSE <<>>

\* the pages whose collapsed text is not empty
NonBlankPages(pages) == {n \in DOMAIN pages : _collapse_ws(JoinLines(pages[n])) # <<>>}

\* the most matches of the pattern that the model lets a document have
MaxMatches == 2

\* the outputs of the search loop: one record per match, page after page;
\* which pages match is up to the pattern
SearchOutputs(pages) ==
    {out \in UNION {[1..n -> [mode : {"search"}, page : NonBlankPages(pages)]] :
                       n \in 0..MaxMatches} :
        \A i \in 1..(Len(out) - 1) : out[i].page <= out[i + 1].page}

SearchMain ==
    /\ pc = "start"
    /\ script = "read_pdf_search"
    /\ pc' = "done"
    /\ IF ~pdf_is_file
       THEN /\ stderr' = PdfNotFoundMessage
            /\ exit_status' = 1
            /\ UNCHANGED stdout
       ELSE IF ~regex_compiles
       THEN /\ stderr' = InvalidRegexMessage
            /\ exit_status' = 2
            /\ UNCHANGED stdout
       ELSE /\ stderr' = WarningFor(expected_pages, backend_pages)
            /\ stdout' \in SearchOutputs(backend_pages)
            /\ exit_status' = 0
    /\ UNCHANGED <<text, max_tokens, counter, estimated_total_tokens, limit, result,
                   pageVars, selectVars, restVars>>

\* the value of "mode" in the record of read_pdf_page_candidates
ModeOf(k) ==
    IF k = "toc" THEN "toc-pages" ELSE IF k = "table" THEN "table-pages" ELSE "chart-pages"

\* the candidate pages: the TOC heuristic, or the pages with a table or
\* chart caption, which are some of the pages with text, in ascending order
CandidatePages(k, pages, tocMax) ==
    IF k = "toc" THEN {_select_toc_pages(pages, tocMax)}
    ELSE {sorted(S) : S \in SUBSET NonBlankPages(pages)}

CandidatesMain ==
    /\ pc = "start"
    /\ script = "read_pdf_page_candidates"
    /\ pc' = "done"
    /\ IF ~pdf_is_file
       THEN /\ stderr' = PdfNotFoundMessage
            /\ exit_status' = 1
            /\ UNCHANGED <<stdout, page_text_by_number, selected>>
       ELSE /\ stderr' = WarningFor(expected_pages, backend_pages)
            /\ page_text_by_number' = backend_pages
            /\ selected' \in CandidatePages(kind, backend_pages, toc_max_pages)
            /\ stdout' = <<[mode |-> ModeOf(kind),
                            pdf_page_count |-> PageCount(backend_pages),
                            pages |-> selected']>>
            /\ exit_status' = 0
    /\ UNCHANGED <<text, max_tokens, counter, estimated_total_tokens, limit, result,
                   toc_max_pages, pageVars, restVars>>

(***************************************************************************)
(* SpecScripts: one run of one of the four scripts.                        *)
(***************************************************************************)
ScriptTexts == {Repeat(w, n) : w \in Words, n \in 0..1}

\* the documents: pages 1..n of prose, a table of contents or nothing
ScriptDocuments == UNION {[1..n -> BackendTexts] : n \in 0..MaxPageNo}

\* the expected page counts given to a script: none, zero, one, two
ScriptExpectedPages == {NoExpectedPages} \cup {[given |-> TRUE, value |-> n] : n \in 0..2}

RunsFresh ==
    /\ pc = "start"
    /\ estimated_total_tokens = -1
    /\ stdout = <<>>
    /\ stderr = <<>>
    /\ exit_status = -1
    /\ page_text_by_number = <<>>
    /\ selected = <<>>
    /\ IdleSearch
    /\ IdlePage
    /\ IdleLoop
    /\ IdleScan

InitTruncateScript ==
    /\ script = "truncate_text_output"
    /\ text \in ScriptTexts
    /\ max_tokens \in -1..1
    /\ counter \in _load_counter
    /\ toc_max_pages = 0
    /\ pdf_is_file = FALSE
    /\ regex_compiles = FALSE
    /\ filter_mode = "all"
    /\ kind = "toc"
    /\ expected_pages = NoExpectedPages
    /\ backend_pages = <<>>

InitPdfScript ==
    /\ script \in {"read_pdf_text", "read_pdf_search", "read_pdf_page_candidates"}
    /\ IdleTruncator
    /\ max_tokens = 0
    /\ pdf_is_file \in BOOLEAN
    /\ backend_pages \in ScriptDocuments
    /\ expected_pages \in ScriptExpectedPages
    /\ regex_compiles \in IF script = "read_pdf_search" THEN BOOLEAN ELSE {FALSE}
    /\ filter_mode \in IF script = "read_pdf_text" THEN {"all", "toc"} ELSE {"all"}
    /\ kind \in IF script = "read_pdf_page_candidates" THEN {"toc", "table", "chart"}
                ELSE {"toc"}
    /\ toc_max_pages \in IF script = "read_pdf_search" THEN {0} ELSE 0..MaxTocPages

InitScripts == RunsFresh /\ (InitTruncateScript \/ InitPdfScript)

TruncateMain == script = "truncate_text_output" /\ Main

NextScripts == TruncateMain \/ TextMain \/ SearchMain \/ CandidatesMain

SpecScripts == InitScripts /\ [][NextScripts]_vars

(***************************************************************************)
(* SpecScan: the loop of _select_toc_pages, one page a step.  classified   *)
(* records the calls of _is_toc_like_page: the page, the prev_selected it  *)
(* was given and the locals it returned with.                              *)
(***************************************************************************)
\* mutant: a page that is not selected leaves prev_selected as it was
NextPrevSelectedSticky(prev, is_candidate) == IF is_candidate THEN TRUE ELSE prev

\* prev_selected after a page
NextPrevSelected(prev, is_candidate) == IF is_candidate THEN TRUE ELSE FALSE

\* the state when the loop is entered
InitScan ==
    /\ pc = "loop"
    /\ page_text_by_number \in Documents
    /\ toc_max_pages \in -1..MaxTocPages
    /\ selected = <<>>
    /\ prev_selected = FALSE
    /\ max_page = MaxKey(DOMAIN page_text_by_number)
    /\ pending = sorted(DOMAIN page_text_by_number)
    /\ classified = <<>>
    /\ page_text = <<>>
    /\ page_locals = NoLocals
    /\ IdleTruncator
    /\ IdleMain
    /\ IdleSearch
    /\ IdleLoop
    /\ IdleScript

\* one pass of the loop body for the next page number
ScanPage ==
    /\ pc = "loop"
    /\ pending # <<>>
    /\ ~StopScan(selected, toc_max_pages)
    /\ \E locals \in {PageLocals(page_text_by_number[Head(pending)], prev_selected, max_page)} :
        /\ page_text' = page_text_by_number[Head(pending)]
        /\ page_locals' = locals
        /\ classified' = Append(classified, [page_no |-> Head(pending),
                                             prev_selected |-> prev_selected,
                                             locals |-> locals])
        /\ selected' = IF locals.is_candidate THEN Append(selected, Head(pending))
                       ELSE selected
        /\ prev_selected' = NextPrevSelected(prev_selected, locals.is_candidate)
    /\ pending' = Tail(pending)
    /\ UNCHANGED <<pc, page_text_by_number, toc_max_pages, max_page, truncVars, loopVars,
                   scriptVars>>

\* the loop ends: no page number is left, or the break
ScanReturn ==
    /\ pc = "loop"
    /\ pending = <<>> \/ StopScan(selected, toc_max_pages)
    /\ pc' = "done"
    /\ UNCHANGED <<truncVars, pageVars, selectVars, restVars>>

NextScan == ScanPage \/ ScanReturn

SpecScan == InitScan /\ [][NextScan]_vars

(***************************************************************************)
(* SpecLoop: _truncate_to_token_limit, one pass of its loop a step, with   *)
(* any counter on the prefixes of the text.                                *)
(***************************************************************************)
\* mutant: lo is set to mid, not to mid + 1, after a candidate that fits
LoAfterFitStuck(mid) == mid

\* lo after a candidate that fits
LoAfterFit(mid) == mid + 1

InitLoop ==
    /\ pc = "start"
    /\ \E n \in 0..MaxLen :
        /\ text = Prefix(Alphabet, n)
        /\ \E f \in [0..n -> 0..(MaxCount - 1)] : counter = TableCounter(f)
    /\ limit \in 0..(MaxCount - 1)
    /\ result = <<>>
    /\ IdleLoop
    /\ IdleMain
    /\ IdlePage
    /\ IdleSelect
    /\ IdleScan
    /\ IdleScript

\* the test before the loop, and the loop's initial locals
LoopEnter ==
    /\ pc = "start"
    /\ IF token_count(counter, text) <= limit
       THEN /\ result' = text
            /\ pc' = "done"
            /\ UNCHANGED loopVars
       ELSE /\ lo' = 0
            /\ hi' = Len(text)
            /\ best' = <<>>
            /\ pc' = "loop"
            /\ UNCHANGED result
    /\ UNCHANGED <<text, max_tokens, counter, estimated_total_tokens, stdout, stderr,
                   exit_status, limit, pageVars, selectVars, scanVars, scriptVars>>

\* one pass of the loop body
LoopStep ==
    /\ pc = "loop"
    /\ lo <= hi
    /\ \E mid \in {(lo + hi) \div 2} :
        IF token_count(counter, Prefix(text, mid)) <= limit
        THEN /\ best' = Prefix(text, mid)
             /\ lo' = LoAfterFit(mid)
             /\ UNCHANGED hi
        ELSE /\ hi' = mid - 1
             /\ UNCHANGED <<lo, best>>
    /\ UNCHANGED <<pc, truncVars, pageVars, selectVars, scanVars, scriptVars>>

\* the loop's test fails: return best
LoopReturn ==
    /\ pc = "loop"
    /\ lo > hi
    /\ result' = best
    /\ pc' = "done"
    /\ UNCHANGED <<text, max_tokens, counter, estimated_total_tokens, stdout, stderr,
                   exit_status, limit, pageVars, selectVars, restVars>>

NextLoop == LoopEnter \/ LoopStep \/ LoopReturn

\* the interpreter runs the loop on: a step that can be taken is taken
SpecLoop == InitLoop /\ [][NextLoop]_vars /\ WF_vars(NextLoop)

(***************************************************************************)
(* Claims about the truncator.                                             *)
(***************************************************************************)
Truncated ==
    /\ pc = "done"
    /\ max_tokens > 0
    /\ token_count(counter, text) > max_tokens
FixedMarker ==
    <<"[", "r", "e", "a", "d", "-", "p", "d", "f", " ", "o", "u", "t", "p", "u", "t", " ", "t", "r", "u", "n", "c", "a", "t", "e", "d", "]">>

\* the least k with 4 * k >= n, i.e. ceil(n / 4)
CeilQuarter(n) == CHOOSE k \in 0..n : 4 * k >= n /\ 4 * (k - 1) < n

Monotonic(f) == \A i, j \in DOMAIN f : i <= j => f[i] <= f[j]

\* C1: when truncation applies, the text emitted (truncated body followed by
\* the notice) counts at most max_tokens tokens under the same counter.
C1_OutputFitsBudget ==
    Truncated => token_count(counter, stdout) <= max_tokens

\* C3: with a budget of 0 the truncator prints its input unchanged, whatever
\* its length, and ends with status 0.
C3_ZeroBudgetUnchanged ==
    (pc = "done" /\ max_tokens = 0) => (stdout = text /\ exit_status = 0)

C3_Witness ==
    /\ pc = "done"
    /\ max_tokens = 0
    /\ Len(text) >= 200
    /\ stdout = text

\* C4: for a budget > 0 and a text whose count is <= the budget (equality
\* included) the output is the input, with no notice appended.
C4_WithinBudgetUnchanged ==
    (pc = "done" /\ max_tokens > 0 /\ token_count(counter, text) <= max_tokens)
        => (stdout = text /\ ~Contains(stdout, FixedMarker))

C4_Witness ==
    /\ pc = "done"
    /\ max_tokens > 0
    /\ token_count(counter, text) = max_tokens
    /\ Len(text) > 0
    /\ stdout = text

\* C5: with a counter monotonic in the prefix length, count(text) > limit and
\* count(empty prefix) <= limit, _truncate_to_token_limit returns text[:L]
\* for the largest L in 0..len(text) whose prefix fits the limit.
C5_LongestFittingPrefix ==
    (/\ pc = "done"
     /\ Monotonic(counter.table)
     /\ counter.table[Len(text)] > limit
     /\ counter.table[0] <= limit)
        => \E L \in 0..Len(text) :
            /\ result = Prefix(text, L)
            /\ counter.table[L] <= limit
            /\ \A l \in (L + 1)..Len(text) : counter.table[l] > limit

C5_Witness ==
    /\ pc = "done"
    /\ Monotonic(counter.table)
    /\ counter.table[Len(text)] > limit
    /\ counter.table[0] <= limit
    /\ Len(text) >= 4
    /\ Len(result) = 2

\* C6: when truncation applies, the output ends with a notice that holds the
\* fixed marker, the token estimate of the original text, the counting-method
\* identifier and the configured budget.
C6_NoticeCarriesTotals ==
    Truncated =>
        \E i \in 1..(Len(stdout) - Len(FixedMarker) + 1) :
            /\ SubSeq(stdout, i, i + Len(FixedMarker) - 1) = FixedMarker
            /\ LET tail == SubSeq(stdout, i, Len(stdout))
               IN  /\ Contains(tail, <<":", " ">> \o Str(token_count(counter, text))
                                     \o <<" ", "(">> \o counter.method \o <<")">>)
                   /\ Contains(tail, <<":", " ">> \o Str(max_tokens) \o <<".">>)
                   /\ tail[Len(tail)] = "\n"

C6_Witness ==
    /\ Truncated
    /\ Contains(stdout, FixedMarker)
    /\ \E i \in 2..(Len(stdout) - 1) :
        /\ SubSeq(stdout, i, i + 1) = <<"\n", "\n">>
        /\ token_count(counter, Prefix(stdout, i - 1)) # token_count(counter, text)

\* C10 as stated: the fallback count of a text is ceil(len(text) / 4) for
\* every text, the empty text included.
C10_FallbackIsCeil ==
    (pc = "done" /\ max_tokens >= 0 /\ counter = FallbackCounter)
        => estimated_total_tokens = CeilQuarter(Len(text))

\* C10 as amended: the fallback count is ceil(len(text) / 4) for every
\* non-empty text and 1 for the empty text.
C10_FallbackIsCeilAtLeastOne ==
    (pc = "done" /\ max_tokens >= 0 /\ counter = FallbackCounter)
        => estimated_total_tokens =
               IF Len(text) = 0 THEN 1 ELSE CeilQuarter(Len(text))

C10_Witness ==
    /\ pc = "done"
    /\ counter = FallbackCounter
    /\ text = <<>>
    /\ estimated_total_tokens = 1

(***************************************************************************)
(* Claims about the page classifier and the page selector.                 *)
(***************************************************************************)
\* the seven rules written one by one on the locals of the finished call,
\* each threshold inclusive
HasAnyHint == page_locals.any_hits # {}

HasStrongHeading == page_locals.strong_heading_hits # {}

NavRatioAtLeast(p) == 100 * page_locals.nav_entry_lines >= p * page_locals.considered

TermRatioAtLeast(p) == 100 * page_locals.term_def_lines >= p * page_locals.considered

HoldsA ==
    HasStrongHeading /\ (page_locals.nav_entry_lines >= 2 \/ NavRatioAtLeast(12)
                         \/ page_locals.dot_leader_lines >= 1)

HoldsB == HasAnyHint /\ page_locals.nav_entry_lines >= 6 /\ NavRatioAtLeast(20)

HoldsC == prev_selected /\ page_locals.nav_entry_lines >= 4 /\ NavRatioAtLeast(15)

HoldsD == prev_selected /\ page_locals.term_def_lines >= 6 /\ TermRatioAtLeast(20)

HoldsE == HasAnyHint /\ page_locals.nav_entry_lines >= 10 /\ NavRatioAtLeast(25)

HoldsF == HasStrongHeading /\ page_locals.term_def_lines >= 6 /\ TermRatioAtLeast(20)

HoldsG ==
    /\ page_locals.nav_entry_lines >= 12
    /\ NavRatioAtLeast(35)
    /\ page_locals.dot_leader_lines >= 2

\* C7: for a page with at least one considered line, _is_toc_like_page
\* returns true if and only if at least one of the rules (a)-(g) holds on the
\* page's counts, hint flags and prev_selected, every threshold inclusive;
\* the rules are taken here in the reverse of the code's order, and as one
\* disjunction no order changes the result
C7_TrueIffSomeRuleHolds ==
    (pc = "done" /\ page_locals.considered >= 1) =>
        (page_locals.is_candidate
            <=> (HoldsG \/ HoldsF \/ HoldsE \/ HoldsD \/ HoldsC \/ HoldsB \/ HoldsA))

\* a finished call that only rule (b) decides, at its threshold of 6 lines
C7_Witness ==
    /\ pc = "done"
    /\ page_locals.considered >= 1
    /\ page_locals.is_candidate
    /\ page_locals.nav_entry_lines = 6
    /\ HoldsB
    /\ ~(HoldsA \/ HoldsC \/ HoldsD \/ HoldsE \/ HoldsF \/ HoldsG)

\* the page has no heading-hint word, no dot-leader line, no nav-entry line
NoTocSignals ==
    /\ page_locals.any_hits = {}
    /\ page_locals.strong_heading_hits = {}
    /\ page_locals.dot_leader_lines = 0
    /\ page_locals.nav_entry_lines = 0

\* C8 as stated: a page with no heading-hint word, no dot-leader line and no
\* nav-entry-shaped line classifies false, whatever prev_selected and the
\* number of term/definition lines are
C8_NoSignalsClassifiesFalse ==
    (pc = "done" /\ NoTocSignals) => ~page_locals.is_candidate

\* C8 as amended: a page with no heading-hint word, no dot-leader line and no
\* nav-entry-shaped line classifies true exactly when prev_selected holds and
\* its term/definition lines are at least 6 and at least 20% of the considered
\* lines (rule d), and false otherwise
C8_NoSignalsOnlyGlossaryContinuation ==
    (pc = "done" /\ NoTocSignals) =>
        (page_locals.is_candidate
            <=> /\ prev_selected
                /\ page_locals.term_def_lines >= 6
                /\ 100 * page_locals.term_def_lines >= 20 * page_locals.considered)

\* a page of 6 term/definition lines after a selected page: no signal, true
C8_Witness ==
    /\ pc = "done"
    /\ NoTocSignals
    /\ prev_selected
    /\ page_locals.term_def_lines = 6
    /\ page_locals.is_candidate

\* what is left of a line once it is normalized and its decoration is stripped
StrippedContent(line) == strip_chars(_collapse_ws(_norm(line)), DecorationChars)

\* the lines of the page that are, decoration apart, exactly the strong hint
IsExactly(hint, i) == StrippedContent(page_text[i]) = hint

\* the number of non-blank lines among the first i lines of the page
NonBlankUpTo(i) == Cardinality({j \in 1..i : strip(page_text[j]) # <<>>})

\* C9 as stated: a line among the first 40 non-blank lines of the page that
\* is, decoration apart, exactly a strong hint is counted as a strong heading
\* hit, however many blank lines precede it
C9_HintAmongFirst40NonBlankLines ==
    pc = "done" =>
        \A i \in 1..Len(page_text) : \A hint \in Range(_STRONG_HEADING_HINTS) :
            (NonBlankUpTo(i) <= 40 /\ IsExactly(hint, i))
                => hint \in page_locals.strong_heading_hits

\* C9 as amended: a line among the first 40 lines of the page, blank lines
\* counted, that is, decoration apart, exactly a strong hint is counted as a
\* strong heading hit
C9_HintAmongFirst40Lines ==
    pc = "done" =>
        \A i \in 1..Len(page_text) : \A hint \in Range(_STRONG_HEADING_HINTS) :
            (i <= 40 /\ IsExactly(hint, i))
                => hint \in page_locals.strong_heading_hits

\* the 40th line is the heading, every line before it is blank, and the
\* heading is counted
C9_Witness ==
    /\ pc = "done"
    /\ Len(page_text) >= 40
    /\ \A j \in 1..39 : strip(page_text[j]) = <<>>
    /\ \E hint \in page_locals.strong_heading_hits : IsExactly(hint, 40)

StrictlyIncreasing(s) == \A i \in 1..(Len(s) - 1) : s[i] < s[i + 1]

\* C2 as stated: for every mapping and every integer toc_max_pages, the list
\* _select_toc_pages returns has at most toc_max_pages page numbers, strictly
\* increasing
C2_AtMostMaxPagesIncreasing ==
    pc = "done" => (Len(selected) <= toc_max_pages /\ StrictlyIncreasing(selected))

\* C2 as amended: the list has at most max(0, toc_max_pages) page numbers
\* (none when toc_max_pages is zero or negative), strictly increasing
C2_AtMostMaxPagesOrNoneIncreasing ==
    pc = "done" =>
        (Len(selected) <= Max(0, toc_max_pages) /\ StrictlyIncreasing(selected))

\* the scan stopped at toc_max_pages = 2 selected pages before a third page
\* that is a table of contents as well
C2_Witness ==
    /\ pc = "done"
    /\ toc_max_pages = 2
    /\ selected = <<1, 2>>
    /\ 3 \in DOMAIN page_text_by_number
    /\ page_text_by_number[3] = PageToc

(***************************************************************************)
(* Claims about the nav-entry test, the page scan and the scripts' exits.  *)
(***************************************************************************)
\* the page list the nav-entry pattern matches in a line, <<>> if none
MatchedPageList(line) == NavEntryMatch(_norm(StripBullet(strip(line)))).pagelist

\* the decimal tokens of a page list: its maximal runs of digits, as numbers
DecimalTokens(pl) ==
    {ToInt(SubSeq(pl, i, j)) : <<i, j>> \in
        {<<a, b>> \in (1..Len(pl)) \X (1..Len(pl)) :
            /\ a <= b
            /\ \A k \in a..b : IsDigit(pl[k])
            /\ a = 1 \/ ~IsDigit(pl[a - 1])
            /\ b = Len(pl) \/ ~IsDigit(pl[b + 1])}}

\* the one line of the page is counted as a nav entry
CountedAsNavEntry == page_locals.nav_entry_lines = 1

\* C11: with max_page > 0 a line is a nav entry exactly when it is one with
\* no max_page given and every decimal token of its matched page list lies
\* in 1..max_page, roman tokens not being looked at; with max_page absent or
\* <= 0 the page numbers are not checked against any range
C11_RangeCheckOnDecimalTokens ==
    pc = "done" =>
        (CountedAsNavEntry
            <=> /\ _looks_like_nav_entry_line(page_text[1], 0)
                /\ max_page > 0 =>
                     \A n \in DecimalTokens(MatchedPageList(page_text[1])) :
                        1 <= n /\ n <= max_page)

\* "See page 450" in a document of 100 pages is rejected, and it is the
\* range check that rejects it
C11_Witness ==
    /\ pc = "done"
    /\ page_text = <<NavLabels_SeePage \o <<" ", "4", "5", "0">>>>
    /\ max_page = 100
    /\ ~CountedAsNavEntry
    /\ _looks_like_nav_entry_line(page_text[1], 0)

\* C12 as stated: with an expected page count supplied the keys of the
\* mapping _extract_pages returns are exactly 1..count, a page the engine did
\* not return has the empty text and every page the engine returned keeps its
\* text; with no count supplied the keys are those the engine returned
C12_KeysContiguousWhenCountSupplied ==
    pc = "done" =>
        IF expected_pages.given
        THEN /\ DOMAIN page_text_by_number = 1..expected_pages.value
             /\ \A n \in 1..expected_pages.value :
                    n \notin DOMAIN backend_pages => page_text_by_number[n] = <<>>
             /\ \A n \in DOMAIN backend_pages :
                    /\ n \in DOMAIN page_text_by_number
                    /\ page_text_by_number[n] = backend_pages[n]
        ELSE DOMAIN page_text_by_number = DOMAIN backend_pages

\* C12 as amended: with an expected page count > 0 supplied the keys are
\* exactly 1..count, a page the engine did not return has the empty text, a
\* page the engine returned under a number in 1..count keeps its text and a
\* page it returned under any other number is left out; with no count, or a
\* count <= 0, the mapping is the one the engine returned
C12_KeysContiguousWhenPositiveCount ==
    pc = "done" =>
        IF expected_pages.given /\ expected_pages.value > 0
        THEN /\ DOMAIN page_text_by_number = 1..expected_pages.value
             /\ \A n \in 1..expected_pages.value :
                    page_text_by_number[n] =
                        IF n \in DOMAIN backend_pages THEN backend_pages[n] ELSE <<>>
        ELSE /\ DOMAIN page_text_by_number = DOMAIN backend_pages
             /\ \A n \in DOMAIN backend_pages :
                    page_text_by_number[n] = backend_pages[n]

\* a count of 2 for an engine that returned pages 0, 2 and 3: page 1 is
\* filled in, page 2 kept, pages 0 and 3 left out
C12_Witness ==
    /\ pc = "done"
    /\ expected_pages = [given |-> TRUE, value |-> 2]
    /\ DOMAIN backend_pages = {0, 2, 3}
    /\ backend_pages[2] = PageToc
    /\ page_text_by_number = <<<<>>, PageToc>>

\* the markdown of the pages in the list sel, in the order of the list
RECURSIVE MarkdownOf(_)
MarkdownOf(sel) ==
    IF sel = <<>> THEN <<>>
    ELSE PageMarkerOpen \o Str(Head(sel)) \o PageMarkerClose
         \o rstrip(JoinLines(page_text_by_number[Head(sel)])) \o <<"\n">>
         \o MarkdownOf(Tail(sel))

TocModeRunEnded ==
    script = "read_pdf_text" /\ pc = "done" /\ pdf_is_file /\ filter_mode = "toc"

\* C13: in TOC filter mode, with no page selected the text extractor writes
\* nothing to standard output and ends with status 4, which is neither 0 nor
\* 1; with a page selected it writes the markdown of exactly the selected
\* pages and ends with status 0
C13_EmptyResultIsStatus4 ==
    TocModeRunEnded =>
        IF selected = <<>>
        THEN stdout = <<>> /\ exit_status = 4
        ELSE stdout = MarkdownOf(selected) /\ exit_status = 0

\* a document with pages, none of them selected: status 4, nothing written
C13_Witness ==
    /\ TocModeRunEnded
    /\ page_text_by_number # <<>>
    /\ toc_max_pages > 0
    /\ selected = <<>>
    /\ stdout = <<>>
    /\ exit_status = 4

\* the run was given invalid input: a negative budget, a path that is not a
\* file, or a pattern that does not compile
InvalidInput ==
    \/ script = "truncate_text_output" /\ max_tokens < 0
    \/ /\ script \in {"read_pdf_text", "read_pdf_search", "read_pdf_page_candidates"}
       /\ ~pdf_is_file
    \/ script = "read_pdf_search" /\ ~regex_compiles

\* C14: a run given invalid input ends with a status other than 0, an error
\* message and nothing on standard output
C14_InvalidInputRejected ==
    (pc = "done" /\ InvalidInput) =>
        (exit_status > 0 /\ stderr # <<>> /\ stdout = <<>>)

\* the truncator given a budget of -1 and a text it would have printed
C14_Witness ==
    /\ pc = "done"
    /\ script = "truncate_text_output"
    /\ max_tokens < 0
    /\ text # <<>>
    /\ exit_status = 1
    /\ stdout = <<>>

\* the page numbers of the calls recorded so far
ClassifiedPages == [i \in 1..Len(classified) |-> classified[i].page_no]

\* how many of the first n recorded calls returned true
SelectedAmongFirst(n) ==
    Cardinality({i \in 1..n : classified[i].locals.is_candidate})

\* the scan agrees with the function: checked to tie the two models
ScanAgreesWithFunction ==
    pc = "done" => selected = _select_toc_pages(page_text_by_number, toc_max_pages)

\* C15: the pages are classified in ascending page-number order with none
\* skipped, a page is classified only while fewer than toc_max_pages pages
\* are selected, and the scan ends before the last page only because
\* toc_max_pages pages are selected: no later page is classified or added
C15_ScanStopsAtMaxSelected ==
    /\ ClassifiedPages \o pending = sorted(DOMAIN page_text_by_number)
    /\ \A i \in 1..Len(classified) : SelectedAmongFirst(i - 1) < toc_max_pages
    /\ selected = SelectSeq(ClassifiedPages,
                            LAMBDA n : \E i \in 1..Len(classified) :
                                          /\ classified[i].page_no = n
                                          /\ classified[i].locals.is_candidate)
    /\ pc = "done" => (pending = <<>> \/ Len(selected) >= toc_max_pages)

\* the scan ended at two selected pages with a third page, a table of
\* contents, never classified
C15_Witness ==
    /\ pc = "done"
    /\ toc_max_pages = 2
    /\ selected = <<1, 2>>
    /\ pending = <<3>>
    /\ page_text_by_number[3] = PageToc
    /\ Len(classified) = 2

\* C16: the first page scanned is classified with prev_selected = FALSE,
\* every later one with prev_selected equal to whether the page scanned just
\* before it was selected, and the result of a call depends on nothing but
\* the page's text, that flag and the document's size
C16_PrevSelectedThreaded ==
    /\ classified # <<>> => ~classified[1].prev_selected
    /\ \A i \in 1..(Len(classified) - 1) :
          classified[i + 1].prev_selected = classified[i].locals.is_candidate
    /\ \A i \in 1..Len(classified) :
          classified[i].locals.is_candidate =
              _is_toc_like_page(page_text_by_number[classified[i].page_no],
                                classified[i].prev_selected,
                                MaxKey(DOMAIN page_text_by_number))

\* three pages scanned: selected, not selected, and a third one classified
\* with prev_selected reset to FALSE
C16_Witness ==
    /\ Len(classified) = 3
    /\ classified[1].locals.is_candidate
    /\ classified[2].prev_selected
    /\ ~classified[2].locals.is_candidate
    /\ ~classified[3].prev_selected

\* one of the rules (a), (b), (e), (f), (g) holds on the locals L of a call
SomeRuleWithoutPrev(L) ==
    LET hint == L.any_hits # {}
        strong == L.strong_heading_hits # {}
        nav == L.nav_entry_lines
        dots == L.dot_leader_lines
        terms == L.term_def_lines
        n == L.considered
    IN  \/ strong /\ (nav >= 2 \/ 100 * nav >= 12 * n \/ dots >= 1)
        \/ hint /\ nav >= 6 /\ 100 * nav >= 20 * n
        \/ hint /\ nav >= 10 /\ 100 * nav >= 25 * n
        \/ strong /\ terms >= 6 /\ 100 * terms >= 20 * n
        \/ nav >= 12 /\ 100 * nav >= 35 * n /\ dots >= 2

\* C17: a selected page that is the first page scanned, or follows a page
\* that was not selected, satisfies one of the rules (a), (b), (e), (f), (g):
\* rules (c) and (d) only extend a run of selected pages
C17_ContinuationRulesNeverStartARun ==
    \A i \in 1..Len(classified) :
        (classified[i].locals.is_candidate
         /\ (i = 1 \/ ~classified[i - 1].locals.is_candidate))
            => SomeRuleWithoutPrev(classified[i].locals)

\* a run started by a rule without prev_selected and extended by a page
\* that only a continuation rule selects
C17_Witness ==
    /\ Len(classified) >= 2
    /\ classified[1].locals.is_candidate
    /\ SomeRuleWithoutPrev(classified[1].locals)
    /\ classified[2].locals.is_candidate
    /\ ~SomeRuleWithoutPrev(classified[2].locals)

\* C19: for toc_max_pages = k >= 0 the list _select_toc_pages returns is a
\* prefix of the list it returns for k + 1 on the same mapping
C19_PrefixOfNextMaximum ==
    (pc = "done" /\ toc_max_pages >= 0) =>
        IsPrefix(selected, _select_toc_pages(page_text_by_number, toc_max_pages + 1))

\* the list for k = 1 is one page, the list for k = 2 has one more
C19_Witness ==
    /\ pc = "done"
    /\ toc_max_pages = 1
    /\ Len(selected) = 1
    /\ Len(_select_toc_pages(page_text_by_number, 2)) = 2

\* the stepwise loop returns what the function returns: ties the two models
LoopAgreesWithFunction ==
    pc = "done" => result = _truncate_to_token_limit(text, limit, counter)

\* C18: for every counter, monotonic or not, and every limit that the empty
\* prefix fits, the call of _truncate_to_token_limit comes to an end and
\* returns a prefix of the text whose token count is within the limit
C18_TerminatesWithinBudget ==
    (token_count(counter, <<>>) <= limit)
        ~> (/\ pc = "done"
            /\ IsPrefix(result, text)
            /\ token_count(counter, result) <= limit)

\* a counter that is not monotonic, a text over the limit, and a returned
\* prefix that is shorter than the longest prefix within the limit
C18_Witness ==
    /\ pc = "done"
    /\ ~Monotonic(counter.table)
    /\ token_count(counter, <<>>) <= limit
    /\ token_count(counter, text) > limit
    /\ token_count(counter, result) <= limit
    /\ \E n \in (Len(result) + 1)..Len(text) : token_count(counter, Prefix(text, n)) <= limit

====
